---- MODULE Spec2Model ----
(***************************************************************************)
(* Model of the ephemeral node orchestrator (LocalNodeManager) and the     *)
(* deterministic deployment engine (SmartContractManager, ProxyDeployer)   *)
(* of onchaintestkit.                                                      *)
(*                                                                         *)
(* The specifications share the variables:                                 *)
(*   Spec, SpecBatch        the deployment engine against a started node;  *)
(*   SpecNode, SpecOverlap  the lifecycle of one LocalNodeManager;         *)
(*   SpecAlloc, SpecFleet   port allocation on a host shared with other    *)
(*                          programs and with other controllers;           *)
(*   SpecAllocFair          SpecAlloc's controller under fair scheduling.  *)
(***************************************************************************)
EXTENDS Integers, Sequences, FiniteSets, TLC

VARIABLES
  \* ---- chain state of the node process (what the RPC endpoint serves) ----
  chain,            \* [code : Addr -> bytes, storage : Addr -> Nat]
  genesis,          \* chain state the node booted with (anvil_reset target)
  snapshots,        \* set of [id, st] : live snapshots taken by anvil_snapshot
  nextSnapId,       \* next snapshot id the node will hand out
  mempool,          \* sequence of submitted, not yet included transactions
  \* ---- SmartContractManager ----
  walletClient,     \* TRUE once initialize() has created the viem clients
  deployedContracts,\* registry: function address -> contract name (its ABI)
  pc,               \* position of the engine operation in progress
  op,               \* the engine operation in progress (its arguments, progress)
  repeatable,       \* requests deployed since the last revert / reset
  afterSnap,        \* per live snapshot: state then, last deployment of each request since
  replay,           \* deployments undone by the last revert
  proxyTxSent,      \* TRUE once PROXY_DEPLOYMENT_TX was submitted to the node
  \* ---- LocalNodeManager ----
  process,          \* this.process      (NULL or a process id)
  provider,         \* this.provider     (NULL or [port |-> p])
  allocatedPort,    \* this.allocatedPort (NULL or a port)
  spc,              \* position of each start() call
  retries,          \* local `retries` of each start() call
  waitProc,         \* process each start() call's waitForNodeReady listens to
  procs,            \* process id -> status of the spawned processes
  last,             \* the controller call that returned in the last step
  \* ---- one host, several LocalNodeManagers (test workers) ----
  ctl,              \* controller -> its config.port, fields and start() position
  anvils,           \* process id -> [st, port, said] of the spawned processes
  listen            \* host port -> NULL (free), the process bound to it, or EXT

chainVars == <<chain, genesis, snapshots, nextSnapId, mempool>>
engineVars == <<walletClient, deployedContracts, pc, op>>
ghostVars == <<repeatable, afterSnap, replay, proxyTxSent>>
nodeVars == <<process, provider, allocatedPort, spc, retries, waitProc,
              procs, last>>
hostVars == <<ctl, anvils, listen>>
vars == <<chainVars, engineVars, ghostVars, nodeVars, hostVars>>

----------------------------------------------------------------------------
\* Bounds of the model

MaxSnaps == 1      \* snapshot ids handed out per behaviour
MaxBatch == 2      \* longest deployments list of a batch
MaxBatchCalls == 1 \* longest calls list of a batch
MaxPending == 1    \* transactions waiting for a block
MaxStarts == 2     \* start() calls in progress at the same time
MaxProcs == 3      \* processes of one controller alive or with events to come
MaxPort == 3       \* the host's ports are 1..MaxPort
MaxAnvils == 2     \* processes of one controller on the host at the same time
MaxProbes == 1     \* failed probes of a search followed with two controllers
MaxRetries == 1    \* failed attempts of a start() call followed on the host
MaxWei == 16       \* the largest wei, gas or block-number quantity passed

NULL == 0

----------------------------------------------------------------------------
\* Contract artifacts, requests and addresses

\* ProxyDeployer.ts: the fixed address of the deterministic deployment proxy
PROXY_ADDRESS == <<0>>

\* runtime code the pre-signed PROXY_DEPLOYMENT_TX leaves at PROXY_ADDRESS
ProxyCode == <<99>>

\* the account of the wallet client (anvil's first account)
WalletAccount == "0xf39f"

\* build outputs present under <projectRoot>/out: name -> {abi, bytecode}.
\* ctor is the number of constructor inputs the ABI declares.
ArtifactNames == {"SimpleToken", "Counter"}

Artifact(name) ==
  IF name = "SimpleToken" THEN [ctor |-> 0, bytecode |-> <<1>>]
  ELSE [ctor |-> 1, bytecode |-> <<2>>]

\* fs.existsSync(artifactPath) in loadArtifact
ArtifactExists(name) == name \in ArtifactNames

\* the projectRoot the engine was constructed with
projectRoot == "/project"

\* loadArtifact: path.join(projectRoot, "out", Name.sol, Name.json)
artifactPath(contractName) ==
  projectRoot \o "/out/" \o contractName \o ".sol/" \o contractName \o ".json"

\* loadArtifact: the message of the error thrown for a missing file
ArtifactNotFound(contractName) ==
  "Artifact not found: " \o artifactPath(contractName)

\* the ABI argument predictContractAddress hands to encodeDeployData: abi: []
EmptyAbi == [ctor |-> 0, bytecode |-> <<>>]

\* viem encodeDeployData: no args -> the bytecode itself; with args the ABI
\* must declare a constructor with inputs, else it throws.
encodeDeployData(abi, bytecode, args) ==
  IF Len(args) = 0 THEN [ok |-> TRUE, data |-> bytecode]
  ELSE IF abi.ctor = 0 THEN [ok |-> FALSE, data |-> <<>>]
  ELSE [ok |-> TRUE, data |-> bytecode \o args]

\* viem getContractAddress, opcode CREATE2: a hash of (from, salt, initCode),
\* kept injective: the triple itself
getContractAddress(from, salt, initCode) == from \o <<salt>> \o initCode

\* SmartContractManager.predictContractAddress
predictContractAddress(salt, bytecode, args) ==
  LET deploymentData == encodeDeployData(EmptyAbi, bytecode, args)
  IN  IF deploymentData.ok
      THEN [ok |-> TRUE,
            addr |-> getContractAddress(PROXY_ADDRESS, salt, deploymentData.data)]
      ELSE [ok |-> FALSE, addr |-> <<>>]

Deployer == "0xf39f"

\* the deployment requests callers submit
DeployRequests ==
  { [name |-> "SimpleToken", args |-> <<>>, salt |-> 1, deployer |-> Deployer],
    [name |-> "SimpleToken", args |-> <<>>, salt |-> 2, deployer |-> Deployer],
    [name |-> "Counter", args |-> <<7>>, salt |-> 1, deployer |-> Deployer],
    [name |-> "Missing", args |-> <<>>, salt |-> 1, deployer |-> Deployer] }

NoReq == [name |-> "", args |-> <<>>, salt |-> 0, deployer |-> ""]

\* every address the requests can lead to, and the proxy
Addr ==
  {PROXY_ADDRESS} \cup
  { getContractAddress(PROXY_ADDRESS, r.salt, Artifact(r.name).bytecode) :
      r \in {q \in DeployRequests : ArtifactExists(q.name) /\ Len(q.args) = 0} }

Targets == Addr \ {PROXY_ADDRESS}

\* the call requests callers submit: set(v) on a target
CallRequests ==
  [target : Targets, functionName : {"set"}, args : {<<1>>},
   account : {"0x7099"}]

NoCall == [target |-> <<>>, functionName |-> "", args |-> <<>>, account |-> ""]

----------------------------------------------------------------------------
\* The chain behind the RPC endpoint

EmptyChain == [code |-> [a \in Addr |-> <<>>], storage |-> [a \in Addr |-> 0]]

\* a forked or pre-seeded node already has the proxy in its initial state
ProxyChain == [EmptyChain EXCEPT !.code[PROXY_ADDRESS] = ProxyCode]

\* PROXY_DEPLOYMENT_TX, the proxy's code: CREATE2 with the leading word of
\* the payload as salt and the rest as init code; a zero result reverts
Create2ByProxy(st, data) ==
  LET addr == getContractAddress(PROXY_ADDRESS, Head(data), Tail(data))
  IN  IF addr \in Addr /\ st.code[addr] = <<>>
      THEN [st EXCEPT !.code[addr] = Tail(data)]
      ELSE st

\* effect of a transaction once a block includes it
ApplyTx(st, tx) ==
  IF tx.kind = "raw" THEN [st EXCEPT !.code[PROXY_ADDRESS] = ProxyCode]
  ELSE IF tx.to = PROXY_ADDRESS
       THEN IF st.code[PROXY_ADDRESS] # <<>>
            THEN Create2ByProxy(st, tx.data) ELSE st
       ELSE IF st.code[tx.to] # <<>>
            THEN [st EXCEPT !.storage[tx.to] = tx.data[1]] ELSE st

RECURSIVE ApplyAll(_, _)
\* effect of a block on the state
ApplyAll(st, txs) ==
  IF txs = <<>> THEN st ELSE ApplyAll(ApplyTx(st, Head(txs)), Tail(txs))

Pending(h) == \E i \in 1..Len(mempool) : mempool[i].hash = h

\* a transaction hash no pending transaction has
FreshHash == CHOOSE h \in 1..(Len(mempool) + 1) : ~Pending(h)


----------------------------------------------------------------------------
\* SmartContractManager

NoOp == [kind |-> "none", deployments |-> <<>>, calls |-> <<>>, di |-> 0,
         ci |-> 0, sent |-> 0, order |-> <<>>, hash |-> 0, addr |-> <<>>,
         ret |-> <<>>, id |-> 0, err |-> "none", st |-> EmptyChain,
         args |-> <<>>, rpc |-> <<>>]

\* the operation returns (err = "none") or throws err; its caller resumes
\* in Return
Finish(o, err) ==
  /\ pc' = "done"
  /\ op' = [o EXCEPT !.err = err]

Idle == pc = "idle"

\* SmartContractManager.validateConfig.  Its first test, for a config with
\* neither list, concerns no config of the model: Configs carry both lists.
validateConfig(config) ==
  IF \E i \in 1..Len(config.deployments) :
       \/ config.deployments[i].name = ""
       \/ config.deployments[i].salt = 0
       \/ config.deployments[i].deployer = ""
  THEN "Each deployment must have name, salt, and deployer"
  ELSE IF \E i \in 1..Len(config.calls) :
            \/ config.calls[i].target = <<>>
            \/ config.calls[i].functionName = ""
            \/ config.calls[i].account = ""
       THEN "Each call must have target, functionName, and account"
       ELSE "none"

\* deployContract that takes the build output for granted
DeployPrefixNoExists(deployment, wc) ==
  IF ~wc THEN [err |-> "SmartContractManager not initialized", addr |-> <<>>]
  ELSE LET predicted == predictContractAddress(deployment.salt,
                          Artifact(deployment.name).bytecode,
                          deployment.args)
       IN  IF predicted.ok THEN [err |-> "none", addr |-> predicted.addr]
           ELSE [err |-> "AbiConstructorNotFound", addr |-> <<>>]

\* deployContract up to its first await: the initialization check,
\* loadArtifact and predictContractAddress
DeployPrefix(deployment, wc) ==
  IF ~wc THEN [err |-> "SmartContractManager not initialized", addr |-> <<>>]
  ELSE IF ~ArtifactExists(deployment.name)
       THEN [err |-> ArtifactNotFound(deployment.name), addr |-> <<>>]
       ELSE LET predicted == predictContractAddress(deployment.salt,
                               Artifact(deployment.name).bytecode,
                               deployment.args)
            IN  IF predicted.ok THEN [err |-> "none", addr |-> predicted.addr]
                ELSE [err |-> "AbiConstructorNotFound", addr |-> <<>>]

\* executeCall that skips the registry lookup
CallPrefixNoLookup(call, wc, reg) ==
  IF ~wc THEN "SmartContractManager not initialized" ELSE "none"

\* executeCall up to its first await: the initialization check and the
\* registry lookup
CallPrefix(call, wc, reg) ==
  IF ~wc THEN "SmartContractManager not initialized"
  ELSE IF call.target \notin DOMAIN reg THEN "ABI not found"
  ELSE "none"

\* the loops of setContractState: where control goes once the previous item
\* has been awaited.  deployContract and executeCall on their own are the
\* one-item case.
Continue(o, wc, reg) ==
  IF o.di < Len(o.deployments)
  THEN LET pre == DeployPrefix(o.deployments[o.di + 1], wc)
           o1 == [o EXCEPT !.order = Append(@, [t |-> "d", i |-> o.di + 1]),
                           !.addr = pre.addr]
       IN  IF pre.err = "none" THEN [pc |-> "d_check", err |-> "none", o |-> o1]
           ELSE [pc |-> "idle", err |-> pre.err, o |-> o1]
  ELSE IF o.ci < Len(o.calls)
       THEN LET err == CallPrefix(o.calls[o.ci + 1], wc, reg)
                o1 == [o EXCEPT !.order = Append(@, [t |-> "c", i |-> o.ci + 1])]
            IN  IF err = "none" THEN [pc |-> "c_send", err |-> "none", o |-> o1]
                ELSE [pc |-> "idle", err |-> err, o |-> o1]
       ELSE [pc |-> "idle", err |-> "none", o |-> o]

Goto(r) ==
  IF r.pc = "idle" THEN Finish(r.o, r.err)
  ELSE pc' = r.pc /\ op' = r.o

\* setContractState after its initialize(): validateConfig, then the loops
AfterInitialize(o, reg) ==
  IF o.kind = "init" THEN [pc |-> "idle", err |-> "none", o |-> o]
  ELSE IF validateConfig(o) # "none"
       THEN [pc |-> "idle", err |-> validateConfig(o), o |-> o]
       ELSE Continue(o, TRUE, reg)

\* this.deployedContracts.set(address, abi)
Register(reg, addr, name) ==
  [a \in DOMAIN reg \cup {addr} |-> IF a = addr THEN name ELSE reg[a]]

\* a submitted transaction; the sender of what the wallet client signs is the
\* client's account
Tx(kind, to, functionName, data) ==
  [hash |-> FreshHash, kind |-> kind, to |-> to,
   functionName |-> functionName, data |-> data, from |-> WalletAccount]

\* caller: smartContractManager.initialize(node)
Initialize ==
  /\ Idle
  /\ pc' = "init_chainid"
  /\ op' = [NoOp EXCEPT !.kind = "init"]
  /\ UNCHANGED <<walletClient, deployedContracts, chainVars, ghostVars, nodeVars,
                 hostVars>>

\* initialize: eth_chainId answered; the clients and the ProxyDeployer exist
GetChainIdReturn ==
  /\ pc = "init_chainid"
  /\ walletClient' = TRUE
  /\ pc' = "init_check"
  /\ UNCHANGED <<op, deployedContracts, chainVars, ghostVars, nodeVars,
                 hostVars>>

\* ensureProxyDeployed that does not look at the answer
IsProxyDeployedReturnBlind ==
  /\ pc = "init_check"
  /\ pc' = "init_send" /\ UNCHANGED op
  /\ UNCHANGED <<walletClient, deployedContracts, chainVars, ghostVars, nodeVars,
                 hostVars>>

\* ProxyDeployer.isProxyDeployed answered inside ensureProxyDeployed
IsProxyDeployedReturn ==
  /\ pc = "init_check"
  /\ IF chain.code[PROXY_ADDRESS] # <<>>
     THEN Goto(AfterInitialize(op, deployedContracts))
     ELSE pc' = "init_send" /\ UNCHANGED op
  /\ UNCHANGED <<walletClient, deployedContracts, chainVars, ghostVars, nodeVars,
                 hostVars>>

\* ensureProxyDeployed: eth_sendRawTransaction(PROXY_DEPLOYMENT_TX) accepted
ProxySubmit ==
  /\ pc = "init_send"
  /\ Len(mempool) < MaxPending
  /\ mempool' = Append(mempool, Tx("raw", <<>>, "", <<>>))
  /\ op' = [op EXCEPT !.hash = FreshHash, !.sent = @ + 1]
  /\ pc' = "init_wait"
  /\ proxyTxSent' = TRUE
  /\ UNCHANGED <<walletClient, deployedContracts, chain, genesis,
                 snapshots, nextSnapId, repeatable, afterSnap, replay,
                 nodeVars, hostVars>>

\* ensureProxyDeployed: waitForTransactionReceipt returned
ProxyReceipt ==
  /\ pc = "init_wait"
  /\ ~Pending(op.hash)
  /\ Goto(AfterInitialize(op, deployedContracts))
  /\ UNCHANGED <<walletClient, deployedContracts, chainVars, ghostVars, nodeVars,
                 hostVars>>

\* caller: smartContractManager.deployContract(deployment)
DeployContract(deployment) ==
  /\ Idle
  /\ Goto(Continue([NoOp EXCEPT !.kind = "deploy",
                                !.deployments = <<deployment>>],
                   walletClient, deployedContracts))
  /\ UNCHANGED <<walletClient, deployedContracts, chainVars, ghostVars, nodeVars,
                 hostVars>>

\* deployContract: getBytecode(predictedAddress) answered
GetBytecodeReturn ==
  /\ pc = "d_check"
  /\ IF chain.code[op.addr] # <<>>
     THEN LET reg == Register(deployedContracts, op.addr,
                              op.deployments[op.di + 1].name)
              o1 == [op EXCEPT !.di = @ + 1, !.ret = op.addr]
          IN  /\ deployedContracts' = reg
              /\ Goto(Continue(o1, walletClient, reg))
     ELSE /\ pc' = "d_send"
          /\ UNCHANGED <<op, deployedContracts>>
  /\ UNCHANGED <<walletClient, chainVars, ghostVars, nodeVars,
                 hostVars>>

\* deployContract: encodeDeployData with the artifact's ABI and
\* sendTransaction({to: proxy, data: salt ++ deploymentData}) accepted
DeploySubmit ==
  /\ pc = "d_send"
  /\ LET deployment == op.deployments[op.di + 1]
         deploymentData == encodeDeployData(Artifact(deployment.name),
                             Artifact(deployment.name).bytecode,
                             deployment.args)
     IN  IF deploymentData.ok
         THEN /\ Len(mempool) < MaxPending
              /\ mempool' = Append(mempool,
                   Tx("create2", PROXY_ADDRESS, "",
                      <<deployment.salt>> \o deploymentData.data))
              /\ op' = [op EXCEPT !.hash = FreshHash, !.sent = @ + 1]
              /\ pc' = "d_wait"
         ELSE /\ Finish(op, "AbiConstructorNotFound")
              /\ UNCHANGED mempool
  /\ UNCHANGED <<walletClient, deployedContracts, chain, genesis, snapshots,
                 nextSnapId, ghostVars, nodeVars,
                 hostVars>>

\* deployContract that registers and returns without awaiting the receipt
DeployReceiptNoWait ==
  /\ pc = "d_wait"
  /\ LET reg == Register(deployedContracts, op.addr,
                         op.deployments[op.di + 1].name)
         o1 == [op EXCEPT !.di = @ + 1, !.ret = op.addr]
     IN  /\ deployedContracts' = reg
         /\ Goto(Continue(o1, walletClient, reg))
  /\ UNCHANGED <<walletClient, chainVars, ghostVars, nodeVars,
                 hostVars>>

\* deployContract: waitForTransactionReceipt returned; register and return
DeployReceipt ==
  /\ pc = "d_wait"
  /\ ~Pending(op.hash)
  /\ LET reg == Register(deployedContracts, op.addr,
                         op.deployments[op.di + 1].name)
         o1 == [op EXCEPT !.di = @ + 1, !.ret = op.addr]
     IN  /\ deployedContracts' = reg
         /\ Goto(Continue(o1, walletClient, reg))
  /\ UNCHANGED <<walletClient, chainVars, ghostVars, nodeVars,
                 hostVars>>

\* caller: smartContractManager.executeCall(call)
ExecuteCall(call) ==
  /\ Idle
  /\ Goto(Continue([NoOp EXCEPT !.kind = "call", !.calls = <<call>>],
                   walletClient, deployedContracts))
  /\ UNCHANGED <<walletClient, deployedContracts, chainVars, ghostVars, nodeVars,
                 hostVars>>

\* executeCall: writeContract accepted by the node; the hash is returned
WriteContractReturn ==
  /\ pc = "c_send"
  /\ Len(mempool) < MaxPending
  /\ LET call == op.calls[op.ci + 1]
         o1 == [op EXCEPT !.ci = @ + 1, !.sent = @ + 1, !.hash = FreshHash]
     IN  /\ mempool' = Append(mempool, Tx("write", call.target,
                                         call.functionName, call.args))
         /\ Goto(Continue(o1, walletClient, deployedContracts))
  /\ UNCHANGED <<walletClient, deployedContracts, chain, genesis, snapshots,
                 nextSnapId, ghostVars, nodeVars,
                 hostVars>>

\* what a request rejects with when the node does not answer it
RpcError == "RPC request failed"

\* initialize: the fetch of eth_chainId rejects; initialize rejects with it
GetChainIdThrows ==
  /\ pc = "init_chainid"
  /\ Finish(op, RpcError)
  /\ UNCHANGED <<walletClient, deployedContracts, chainVars, ghostVars, nodeVars,
                 hostVars>>

\* ProxyDeployer.isProxyDeployed: getBytecode rejects; the catch returns
\* false and ensureProxyDeployed goes on to send the deployment transaction
IsProxyDeployedCatch ==
  /\ pc = "init_check"
  /\ pc' = "init_send" /\ UNCHANGED op
  /\ UNCHANGED <<walletClient, deployedContracts, chainVars, ghostVars, nodeVars,
                 hostVars>>

\* ensureProxyDeployed: eth_sendRawTransaction rejects; the catch rethrows
ProxySubmitThrows ==
  /\ pc = "init_send"
  /\ Finish(op, "Failed to deploy deterministic deployment proxy: " \o RpcError)
  /\ UNCHANGED <<walletClient, deployedContracts, chainVars, ghostVars, nodeVars,
                 hostVars>>

\* ensureProxyDeployed: waitForTransactionReceipt rejects
ProxyReceiptThrows ==
  /\ pc = "init_wait"
  /\ Finish(op, "Failed to deploy deterministic deployment proxy: " \o RpcError)
  /\ UNCHANGED <<walletClient, deployedContracts, chainVars, ghostVars, nodeVars,
                 hostVars>>

\* deployContract: getBytecode(predictedAddress) rejects
GetBytecodeThrows ==
  /\ pc = "d_check"
  /\ Finish(op, RpcError)
  /\ UNCHANGED <<walletClient, deployedContracts, chainVars, ghostVars, nodeVars,
                 hostVars>>

\* deployContract whose failed sendTransaction goes unnoticed
DeploySubmitThrowsSwallowed ==
  /\ pc = "d_send"
  /\ encodeDeployData(Artifact(op.deployments[op.di + 1].name),
                      Artifact(op.deployments[op.di + 1].name).bytecode,
                      op.deployments[op.di + 1].args).ok
  /\ pc' = "d_wait" /\ UNCHANGED op
  /\ UNCHANGED <<walletClient, deployedContracts, chainVars, ghostVars, nodeVars,
                 hostVars>>

\* deployContract: sendTransaction rejects
DeploySubmitThrows ==
  /\ pc = "d_send"
  /\ encodeDeployData(Artifact(op.deployments[op.di + 1].name),
                      Artifact(op.deployments[op.di + 1].name).bytecode,
                      op.deployments[op.di + 1].args).ok
  /\ Finish(op, RpcError)
  /\ UNCHANGED <<walletClient, deployedContracts, chainVars, ghostVars, nodeVars,
                 hostVars>>

\* deployContract that registers the address although the wait failed
DeployReceiptThrowsRegisters ==
  /\ pc = "d_wait"
  /\ deployedContracts' = Register(deployedContracts, op.addr,
                                   op.deployments[op.di + 1].name)
  /\ Finish(op, RpcError)
  /\ UNCHANGED <<walletClient, chainVars, ghostVars, nodeVars, hostVars>>

\* deployContract: waitForTransactionReceipt rejects
DeployReceiptThrows ==
  /\ pc = "d_wait"
  /\ Finish(op, RpcError)
  /\ UNCHANGED <<walletClient, deployedContracts, chainVars, ghostVars, nodeVars,
                 hostVars>>

\* executeCall whose failure undoes the registrations made so far
WriteContractThrowsRollback ==
  /\ pc = "c_send"
  /\ deployedContracts' = <<>>
  /\ Finish(op, RpcError)
  /\ UNCHANGED <<walletClient, chainVars, ghostVars, nodeVars, hostVars>>

\* executeCall: writeContract rejects
WriteContractThrows ==
  /\ pc = "c_send"
  /\ Finish(op, RpcError)
  /\ UNCHANGED <<walletClient, deployedContracts, chainVars, ghostVars, nodeVars,
                 hostVars>>

\* entries validateConfig rejects: a deployment without salt, a call without
\* account
LackingSalt ==
  [name |-> "SimpleToken", args |-> <<>>, salt |-> 0, deployer |-> Deployer]

LackingAccount ==
  [target |-> CHOOSE t \in Targets : TRUE, functionName |-> "set",
   args |-> <<1>>, account |-> ""]

\* the batches callers submit, both lists given
Configs ==
  { c \in [deployments : UNION {[1..n -> DeployRequests \cup {LackingSalt}] :
                                  n \in 0..MaxBatch},
           calls : UNION {[1..n -> CallRequests \cup {LackingAccount}] :
                            n \in 0..MaxBatchCalls}] :
      Len(c.deployments) + Len(c.calls) > 0 }

\* caller: smartContractManager.setContractState(config, node)
SetContractState(config) ==
  /\ Idle
  /\ LET o == [NoOp EXCEPT !.kind = "batch",
                           !.deployments = config.deployments,
                           !.calls = config.calls]
     IN  IF ~walletClient
         THEN pc' = "init_chainid" /\ op' = o
         ELSE Goto(AfterInitialize(o, deployedContracts))
  /\ UNCHANGED <<walletClient, deployedContracts, chainVars, ghostVars, nodeVars,
                 hostVars>>


----------------------------------------------------------------------------
\* LocalNodeManager: the RPC helpers

NoProvider == [port |-> -1]

\* LocalNodeManager.send: throws "Node not started" without a provider
sendThrows == provider = NoProvider

\* caller: node.snapshot()
Snapshot ==
  /\ Idle
  /\ IF sendThrows
     THEN /\ Finish([NoOp EXCEPT !.kind = "snapshot"], "Node not started")
          /\ UNCHANGED <<snapshots, nextSnapId>>
     ELSE /\ nextSnapId <= MaxSnaps
          /\ snapshots' = snapshots \cup {[id |-> nextSnapId, st |-> chain]}
          /\ nextSnapId' = nextSnapId + 1
          /\ Finish([NoOp EXCEPT !.kind = "snapshot", !.id = nextSnapId,
                                 !.st = chain], "none")
  /\ UNCHANGED <<walletClient, deployedContracts, chain, genesis, mempool,
                 ghostVars, nodeVars,
                 hostVars>>

\* a revert that reports success and restores nothing
RevertStateKeep(id) == chain

\* anvil_revert: restores the state saved under the id and drops that
\* snapshot and the later ones; an unknown id changes nothing
RevertState(id) ==
  IF \E s \in snapshots : s.id = id
  THEN (CHOOSE s \in snapshots : s.id = id).st
  ELSE chain

\* caller: node.revert(snapshotId)
Revert(id) ==
  /\ Idle
  /\ IF sendThrows
     THEN /\ Finish([NoOp EXCEPT !.kind = "revert", !.id = id],
                    "Node not started")
          /\ UNCHANGED <<chain, snapshots>>
     ELSE /\ chain' = RevertState(id)
          /\ snapshots' = IF \E s \in snapshots : s.id = id
                          THEN {s \in snapshots : s.id < id}
                          ELSE snapshots
          /\ Finish([NoOp EXCEPT !.kind = "revert", !.id = id,
                                 !.st = RevertState(id)], "none")
  /\ UNCHANGED <<walletClient, deployedContracts, genesis, nextSnapId,
                 mempool, ghostVars, nodeVars,
                 hostVars>>

\* caller: node.reset()
Reset ==
  /\ Idle
  /\ IF sendThrows
     THEN /\ Finish([NoOp EXCEPT !.kind = "reset"], "Node not started")
          /\ UNCHANGED chain
     ELSE /\ chain' = genesis
          /\ Finish([NoOp EXCEPT !.kind = "reset", !.st = genesis], "none")
  /\ UNCHANGED <<walletClient, deployedContracts, genesis, snapshots,
                 nextSnapId, mempool, ghostVars, nodeVars,
                 hostVars>>

\* the node produces a block: it includes the pending transactions in order
Mine ==
  /\ Len(mempool) > 0
  /\ chain' = ApplyAll(chain, mempool)
  /\ mempool' = <<>>
  /\ UNCHANGED <<genesis, snapshots, nextSnapId, engineVars, ghostVars,
                 nodeVars, hostVars>>

\* what the caller has seen so far, kept for the properties: the operation's
\* result reaches the caller
Return ==
  /\ pc = "done"
  /\ pc' = "idle"
  /\ op' = NoOp
  /\ LET ok == op.err = "none"
         live == \E g \in afterSnap : g.id = op.id
         dep == [req |-> op.deployments[1], ret |-> op.ret,
                 code |-> chain.code[op.ret]]
     IN  CASE op.kind = "deploy" /\ ok ->
                /\ repeatable' = repeatable \cup
                                   {[req |-> op.deployments[1], ret |-> op.ret]}
                /\ afterSnap' =
                     IF op.sent > 0
                     THEN {[g EXCEPT !.deployed =
                             {d \in @ : d.req # dep.req} \cup {dep}] :
                           g \in afterSnap}
                     ELSE afterSnap
                /\ replay' = {r \in replay : r.req # op.deployments[1]}
           [] op.kind = "snapshot" /\ ok ->
                /\ afterSnap' = afterSnap \cup
                     {[id |-> op.id, st |-> op.st, deployed |-> {}]}
                /\ UNCHANGED <<repeatable, replay>>
           [] op.kind = "revert" /\ ok ->
                /\ repeatable' = {}
                /\ replay' =
                     IF live
                     THEN LET g == CHOOSE h \in afterSnap : h.id = op.id
                          IN  {d \in g.deployed : g.st.code[d.ret] = <<>>}
                     ELSE {}
                /\ afterSnap' = IF live THEN {g \in afterSnap : g.id < op.id}
                                ELSE afterSnap
           [] op.kind = "reset" /\ ok ->
                /\ repeatable' = {}
                /\ replay' = {}
                /\ UNCHANGED afterSnap
           [] OTHER -> UNCHANGED <<repeatable, afterSnap, replay>>
  /\ UNCHANGED <<walletClient, deployedContracts, chainVars, proxyTxSent,
                 nodeVars, hostVars>>

\* no controller call returned in this step
NoCallRec == [call |-> "none", result |-> "none", had |-> NULL, attempts |-> 0]

\* the helpers whose effect on the node lies outside the modelled chain state
HelperMethods == {"anvil_mine"}

\* caller: node.mine(); setAutomine, the time, account, fee, chain-id and
\* impersonation helpers have the same body: one send()
Helper(method) ==
  /\ last' = [NoCallRec EXCEPT !.call = method,
         !.result = IF sendThrows THEN "Node not started" ELSE "sent"]
  /\ UNCHANGED <<process, provider, allocatedPort, spc, retries, waitProc,
                 procs, chainVars, engineVars, ghostVars,
                 hostVars>>

\* the digits of BigInt.prototype.toString(16)
HexDigits ==
  <<"0", "1", "2", "3", "4", "5", "6", "7", "8", "9", "a", "b", "c", "d",
    "e", "f">>

\* n.toString(16) of a bigint n >= 0, a string being the sequence of its
\* characters
RECURSIVE toString16(_)
toString16(n) ==
  IF n < Len(HexDigits) THEN <<HexDigits[n + 1]>>
  ELSE toString16(n \div Len(HexDigits)) \o <<HexDigits[(n % Len(HexDigits)) + 1]>>

\* the template literal `0x${n.toString(16)}`
hex(n) == <<"0", "x">> \o toString16(n)

\* the helpers: the method and the params each hands to send().  An
\* optional bigint is <<>> when undefined and <<n>> when n; the test
\* `forkBlock ?` is false for undefined and for 0n.
reset(forkBlock) ==
  [method |-> "anvil_reset",
   params |-> IF forkBlock # <<>> /\ forkBlock[1] # 0
              THEN <<[forking |-> [blockNumber |-> hex(forkBlock[1])]]>>
              ELSE <<>>]

mine(blocks) == [method |-> "anvil_mine", params |-> <<blocks>>]

setAutomine(enabled) == [method |-> "anvil_setAutomine", params |-> <<enabled>>]

setNextBlockTimestamp(timestamp) ==
  [method |-> "anvil_setNextBlockTimestamp", params |-> <<timestamp>>]

increaseTime(seconds) == [method |-> "anvil_increaseTime", params |-> <<seconds>>]

setTime(timestamp) == [method |-> "anvil_setTime", params |-> <<timestamp>>]

getAccounts == [method |-> "eth_accounts", params |-> <<>>]

setBalance(address, balance) ==
  [method |-> "anvil_setBalance", params |-> <<address, hex(balance)>>]

setNonce(address, nonce) == [method |-> "anvil_setNonce", params |-> <<address, nonce>>]

setCode(address, code) == [method |-> "anvil_setCode", params |-> <<address, code>>]

setStorageAt(address, slot, value) ==
  [method |-> "anvil_setStorageAt", params |-> <<address, slot, value>>]

setNextBlockBaseFeePerGas(fee) ==
  [method |-> "anvil_setNextBlockBaseFeePerGas", params |-> <<hex(fee)>>]

setMinGasPrice(price) == [method |-> "anvil_setMinGasPrice", params |-> <<hex(price)>>]

setChainId(chainId) == [method |-> "anvil_setChainId", params |-> <<chainId>>]

impersonateAccount(address) ==
  [method |-> "anvil_impersonateAccount", params |-> <<address>>]

stopImpersonatingAccount(address) ==
  [method |-> "anvil_stopImpersonatingAccount", params |-> <<address>>]

\* caller: one of the helpers above, called as name(args); its body is one
\* awaited this.send(method, params), so send's error is the helper's.
\* op.rpc lists the requests handed to the provider, each with how it
\* settled: outcome is "ok" or "error"
NodeCall(name, args, request, outcome) ==
  /\ Idle
  /\ LET o == [NoOp EXCEPT !.kind = name, !.args = args]
     IN  IF sendThrows THEN Finish(o, "Node not started")
         ELSE IF outcome = "error"
              THEN Finish([o EXCEPT !.rpc = <<[request |-> request,
                                                settled |-> outcome]>>],
                          RpcError)
              ELSE Finish([o EXCEPT !.rpc = <<[request |-> request,
                                                settled |-> outcome]>>],
                          "none")
  /\ chain' = IF ~sendThrows /\ outcome = "ok" /\ name = "reset"
              THEN genesis ELSE chain
  /\ UNCHANGED <<walletClient, deployedContracts, genesis, snapshots,
                 nextSnapId, mempool, ghostVars, nodeVars, hostVars>>

----------------------------------------------------------------------------
\* LocalNodeManager: lifecycle

MAX_PORT_ALLOCATION_RETRIES == 5

Ports == {1, 2}

Calls == 1..MaxStarts

Pids == 1..MaxProcs

\* a process is forgotten once its exit / error event has been delivered and
\* no waitForNodeReady listens to it any more
Forget(pr, sp, wp) ==
  [p \in Pids |->
     IF pr[p] \in {"exited", "errored"}
        /\ ~\E c \in Calls : sp[c] = "waiting" /\ wp[c] = p
     THEN "free" ELSE pr[p]]

\* ChildProcess.kill(): the signal is sent; the exit event comes later
Kill(pr, p) ==
  IF p # NULL /\ pr[p] = "running" THEN [pr EXCEPT ![p] = "killed"] ELSE pr

\* a cleanup that drops the handle without killing the process
cleanupNoKill(pr, sp) ==
  /\ procs' = Forget(pr, sp, waitProc)
  /\ process' = NULL
  /\ provider' = NoProvider
  /\ allocatedPort' = NULL

\* LocalNodeManager.cleanup; pr is the process table it acts on
cleanup(pr, sp) ==
  /\ procs' = Forget(Kill(pr, process), sp, waitProc)
  /\ process' = NULL
  /\ provider' = NoProvider
  /\ allocatedPort' = NULL

\* caller: node.start(); the call takes the lowest unused slot
Start(c) ==
  /\ spc[c] = "idle"
  /\ \A b \in Calls : b < c => spc[b] # "idle"
  /\ IF process # NULL
     THEN /\ last' = [NoCallRec EXCEPT !.call = "start",
                       !.result = "Node is already running"]
          /\ UNCHANGED <<spc, retries>>
     ELSE /\ spc' = [spc EXCEPT ![c] = "alloc"]
          /\ retries' = [retries EXCEPT ![c] = 0]
          /\ last' = NoCallRec
  /\ UNCHANGED <<process, provider, allocatedPort, waitProc, procs,
                 chainVars, engineVars, ghostVars,
                 hostVars>>

\* start: findAvailablePort returned; spawn, attach the handlers and enter
\* waitForNodeReady.  The spawn either runs the binary or fails (error event).
Spawn(c, port, status) ==
  /\ spc[c] = "alloc"
  /\ \E q \in Pids : procs[q] = "free"
  /\ LET p == CHOOSE q \in Pids :
                procs[q] = "free" /\ \A r \in Pids : procs[r] = "free" => q <= r
     IN  /\ allocatedPort' = port
         /\ procs' = [procs EXCEPT ![p] = status]
         /\ process' = p
         /\ waitProc' = [waitProc EXCEPT ![c] = p]
  /\ spc' = [spc EXCEPT ![c] = "waiting"]
  /\ last' = NoCallRec
  /\ UNCHANGED <<provider, retries, chainVars, engineVars, ghostVars,
                 hostVars>>

\* a catch block that retries without cleaning up
CatchNoCleanup(c) ==
  /\ retries' = [retries EXCEPT ![c] = @ + 1]
  /\ IF retries[c] + 1 < MAX_PORT_ALLOCATION_RETRIES
     THEN /\ spc' = [spc EXCEPT ![c] = "delay"]
          /\ last' = NoCallRec
     ELSE /\ spc' = [spc EXCEPT ![c] = "idle"]
          /\ last' = [NoCallRec EXCEPT !.call = "start",
                       !.result = "Failed to start Anvil node",
                       !.attempts = MAX_PORT_ALLOCATION_RETRIES]
  /\ UNCHANGED <<process, provider, allocatedPort, procs, waitProc, chainVars,
                 engineVars, ghostVars,
                 hostVars>>

\* start: the catch block, the retry delay and the terminal error
Catch(c) ==
  /\ retries' = [retries EXCEPT ![c] = @ + 1]
  /\ IF retries[c] + 1 < MAX_PORT_ALLOCATION_RETRIES
     THEN /\ spc' = [spc EXCEPT ![c] = "delay"]
          /\ cleanup(procs, [spc EXCEPT ![c] = "delay"])
          /\ last' = NoCallRec
     ELSE /\ spc' = [spc EXCEPT ![c] = "idle"]
          /\ cleanup(procs, [spc EXCEPT ![c] = "idle"])
          /\ last' = [NoCallRec EXCEPT !.call = "start",
                       !.result = "Failed to start Anvil node",
                       !.attempts = MAX_PORT_ALLOCATION_RETRIES]
  /\ UNCHANGED <<waitProc, chainVars, engineVars, ghostVars,
                 hostVars>>

\* start: findAvailablePort threw "No available ports found"
AllocFail(c) ==
  /\ spc[c] = "alloc"
  /\ Catch(c)

\* waitForNodeReady: the 30 s timer rejected the wait
Timeout(c) ==
  /\ spc[c] = "waiting"
  /\ Catch(c)

\* start: the milliseconds of setTimeout before the attempt that follows the
\* failed attempt number failed
retryDelay(failed) == 1000

\* start: the delay before the next attempt is over
DelayDone(c) ==
  /\ spc[c] = "delay"
  /\ spc' = [spc EXCEPT ![c] = "alloc"]
  /\ last' = NoCallRec
  /\ UNCHANGED <<process, provider, allocatedPort, retries, waitProc, procs,
                 chainVars, engineVars, ghostVars,
                 hostVars>>

\* waitForNodeReady: stdout of the awaited process delivered "Listening on";
\* start creates the provider and returns
ReadyData(c) ==
  /\ spc[c] = "waiting"
  /\ procs[waitProc[c]] \in {"running", "killed", "exited"}
  /\ provider' = [port |-> allocatedPort]
  /\ spc' = [spc EXCEPT ![c] = "idle"]
  /\ procs' = Forget(procs, [spc EXCEPT ![c] = "idle"], waitProc)
  /\ last' = [NoCallRec EXCEPT !.call = "start", !.result = "ok"]
  /\ UNCHANGED <<process, allocatedPort, retries, waitProc, chainVars,
                 engineVars, ghostVars,
                 hostVars>>

\* the "exit" handler attached in start
ExitEvent(p) ==
  /\ procs[p] \in {"running", "killed"}
  /\ cleanup([procs EXCEPT ![p] = "exited"], spc)
  /\ last' = NoCallRec
  /\ UNCHANGED <<spc, retries, waitProc, chainVars, engineVars, ghostVars,
                 hostVars>>

\* the "error" handler attached in start
ErrorEvent(p) ==
  /\ procs[p] = "failing"
  /\ cleanup([procs EXCEPT ![p] = "errored"], spc)
  /\ last' = NoCallRec
  /\ UNCHANGED <<spc, retries, waitProc, chainVars, engineVars, ghostVars,
                 hostVars>>

\* caller: node.stop()
Stop ==
  /\ cleanup(procs, spc)
  /\ last' = [NoCallRec EXCEPT !.call = "stop", !.result = "ok",
                                !.had = process]
  /\ UNCHANGED <<spc, retries, waitProc, chainVars, engineVars, ghostVars,
                 hostVars>>

----------------------------------------------------------------------------
\* LocalNodeManager: port allocation, with the host's ports in view

\* findAvailablePort: const maxAttempts
maxAttempts == 20

\* distinct ports are a property of pairs: two controllers, and EXT for
\* whatever else runs on the host
Controllers == {1, 2}

HostPorts == 1..MaxPort

\* a port another program of the host holds
EXT == -1

\* config.portRange: [minPort, maxPort]
portRange == <<2, MaxPort>>

\* minPort + Math.floor(Math.random() * range), range = maxPort - minPort + 1
RandomPorts == {portRange[1] + r : r \in 0..(portRange[2] - portRange[1])}

\* ports a test process may not bind (listen fails with EACCES)
Denied == {1}

\* the values of config.port: none, a privileged port, a port of the range
ConfigPorts == {NULL, 1, 2}

AnvilIds == 1..(Cardinality(Controllers) * MaxAnvils)

\* the controller whose start() spawned process a
Owner(a) == ((a - 1) \div MaxAnvils) + 1

NoAnvil == [st |-> "free", port |-> NULL, said |-> FALSE]

\* a constructed LocalNodeManager with config.port = port
NewController(port) ==
  [port |-> port, pc |-> "idle", via |-> "none", cand |-> NULL, attempt |-> 0,
   retries |-> 0, error |-> "none", allocatedPort |-> NULL, process |-> NULL,
   wait |-> NULL, provider |-> NoProvider]

\* variant: a port in use counts as available
isPortAvailableInUse(port) ==
  IF port \notin HostPorts \/ port \in Denied THEN "pending" ELSE "true"

\* isPortAvailable(port): the listener reports "listening" (true), the error
\* EADDRINUSE (false) or another error, which resolves nothing (pending)
isPortAvailable(port) ==
  IF port \notin HostPorts \/ port \in Denied THEN "pending"
  ELSE IF listen[port] # NULL THEN "false"
  ELSE "true"

\* variant: --port takes the configured port when there is one
buildAnvilArgsConfigPort(c) == IF c.port # NULL THEN c.port ELSE c.allocatedPort

\* buildAnvilArgs: --port is passed when allocatedPort is set; without it the
\* binary takes its default port, which is none of the modelled ones
buildAnvilArgs(c) == IF c.allocatedPort # NULL THEN c.allocatedPort ELSE NULL

\* findAvailablePort entered: the requested port is probed first
EnterFind(c) ==
  IF c.port # NULL
  THEN [c EXCEPT !.pc = "probe", !.via = "requested", !.cand = c.port,
                 !.attempt = 0]
  ELSE [c EXCEPT !.pc = "draw", !.via = "random", !.cand = NULL,
                 !.attempt = 0]

\* a waitForNodeReady of controller record c listens to the stdout of a
Waited(c, a) == c.pc = "waiting" /\ c.wait = a

\* cleanup() of controller record c: the fields, and the kill it sends
Cleared(c) ==
  [c EXCEPT !.process = NULL, !.provider = NoProvider, !.allocatedPort = NULL]

\* this.process.kill().  The process is ending: it binds nothing any more and
\* keeps the port it has bound until it exits; what it wrote to stdout still counts when waited says that a
\* waitForNodeReady listens to it.
Killed(an, c, waited) ==
  IF c.process # NULL /\ an[c.process].st \in {"spawned", "listening"}
  THEN [an EXCEPT ![c.process] =
          [st |-> "ending",
           port |-> IF @.st = "listening" THEN @.port ELSE NULL,
           said |-> @.said /\ waited]]
  ELSE an

\* start: the catch block of one attempt.  The locals of a call that has
\* returned or left findAvailablePort are dead and kept at their initial values.
FleetCatch(k, c, error) ==
  LET n == c.retries + 1
      again == n < MAX_PORT_ALLOCATION_RETRIES
      c1 == [Cleared(c) EXCEPT !.retries = IF again THEN n ELSE 0,
               !.error = error, !.pc = IF again THEN "delay" ELSE "idle",
               !.via = "none", !.cand = NULL, !.attempt = 0, !.wait = NULL]
  IN  /\ ctl' = [ctl EXCEPT ![k] = c1]
      /\ anvils' = Killed(anvils, c, FALSE)

\* caller: start() of controller k, accepted (no process held)
FleetStart(k) ==
  /\ ctl[k].pc = "idle"
  /\ ctl[k].process = NULL
  /\ ctl' = [ctl EXCEPT ![k] = EnterFind([@ EXCEPT !.retries = 0,
                                                  !.error = "none"])]
  /\ UNCHANGED <<anvils, listen, chainVars, engineVars, ghostVars, nodeVars>>

\* findAvailablePort: the next random candidate is drawn and probed
Draw(k, port) ==
  /\ ctl[k].pc = "draw"
  /\ ctl' = [ctl EXCEPT ![k].pc = "probe", ![k].cand = port]
  /\ UNCHANGED <<anvils, listen, chainVars, engineVars, ghostVars, nodeVars>>

\* findAvailablePort: isPortAvailable settled.  true: the port is returned,
\* start stores it, spawns the binary with it and waits for readiness;
\* false: next candidate, or the error after maxAttempts candidates
Probe(k, status) ==
  /\ ctl[k].pc = "probe"
  /\ LET c == ctl[k]
         avail == isPortAvailable(c.cand)
     IN  CASE avail = "pending" ->
                /\ ctl' = [ctl EXCEPT ![k].pc = "hung"]
                /\ UNCHANGED anvils
           [] avail = "true" ->
                /\ \E a \in AnvilIds : Owner(a) = k /\ anvils[a].st = "free"
                /\ LET a == CHOOSE b \in AnvilIds :
                              /\ Owner(b) = k /\ anvils[b].st = "free"
                              /\ \A d \in AnvilIds :
                                   Owner(d) = k /\ anvils[d].st = "free"
                                     => b <= d
                       c1 == [c EXCEPT !.allocatedPort = c.cand]
                   IN  /\ anvils' = [anvils EXCEPT ![a] =
                                       [st |-> status,
                                        port |-> buildAnvilArgs(c1),
                                        said |-> FALSE]]
                       /\ ctl' = [ctl EXCEPT ![k] =
                                    [c1 EXCEPT !.process = a, !.wait = a,
                                               !.pc = "waiting",
                                               !.via = "none", !.cand = NULL,
                                               !.attempt = 0]]
           [] avail = "false" /\ c.via = "requested" ->
                /\ ctl' = [ctl EXCEPT ![k].pc = "draw", ![k].via = "random",
                                      ![k].cand = NULL]
                /\ UNCHANGED anvils
           [] avail = "false" /\ c.via = "random"
                /\ c.attempt + 1 < maxAttempts ->
                /\ ctl' = [ctl EXCEPT ![k].pc = "draw", ![k].attempt = @ + 1,
                                      ![k].cand = NULL]
                /\ UNCHANGED anvils
           [] OTHER ->
                FleetCatch(k, c, "No available ports found")
  /\ UNCHANGED <<listen, chainVars, engineVars, ghostVars, nodeVars>>

\* waitForNodeReady: the 30 s timer rejected the wait
FleetTimeout(k) ==
  /\ ctl[k].pc = "waiting"
  /\ FleetCatch(k, ctl[k], "Timeout waiting for node to start")
  /\ UNCHANGED <<listen, chainVars, engineVars, ghostVars, nodeVars>>

\* start: the delay before the next attempt is over
FleetDelayDone(k) ==
  /\ ctl[k].pc = "delay"
  /\ ctl' = [ctl EXCEPT ![k] = EnterFind([@ EXCEPT !.error = "none"])]
  /\ UNCHANGED <<anvils, listen, chainVars, engineVars, ghostVars, nodeVars>>

\* the spawned binary binds its port and writes "Listening on", or fails to
\* and is ending
Bind(a) ==
  /\ anvils[a].st = "spawned"
  /\ LET port == anvils[a].port
     IN  IF port \in HostPorts /\ port \notin Denied /\ listen[port] = NULL
         THEN /\ anvils' = [anvils EXCEPT ![a].st = "listening",
                                          ![a].said = TRUE]
              /\ listen' = [listen EXCEPT ![port] = a]
         ELSE /\ anvils' = [anvils EXCEPT ![a].st = "ending", ![a].port = NULL]
              /\ UNCHANGED listen
  /\ UNCHANGED <<ctl, chainVars, engineVars, ghostVars, nodeVars>>

\* stdout "data" with the readiness line reaches the listeners: the
\* waitForNodeReady attached to this process resolves, start creates the
\* provider and returns
StdoutData(a) ==
  /\ anvils[a].said
  /\ anvils' = [anvils EXCEPT ![a] = IF @.st = "exited" THEN NoAnvil
                                     ELSE [@ EXCEPT !.said = FALSE]]
  /\ LET k == Owner(a)
     IN  IF ctl[k].pc = "waiting" /\ ctl[k].wait = a
         THEN ctl' = [ctl EXCEPT ![k].pc = "idle", ![k].retries = 0,
                        ![k].wait = NULL,
                        ![k].provider = [port |-> ctl[k].allocatedPort]]
         ELSE UNCHANGED ctl
  /\ UNCHANGED <<listen, chainVars, engineVars, ghostVars, nodeVars>>

\* the process ends (on its own, after a failed bind or spawn, or killed):
\* its port is free again and the "exit" / "error" handler runs cleanup(),
\* whichever process the controller holds by then.  Output of the process that
\* a waitForNodeReady still listens to may arrive after the event.
AnvilExit(a) ==
  /\ anvils[a].st \in {"spawned", "listening", "ending"}
  /\ LET k == Owner(a)
         c == ctl[k]
     IN  /\ anvils' = [Killed(anvils, c, Waited(c, c.process)) EXCEPT ![a] =
                         IF anvils[a].said /\ Waited(c, a)
                         THEN [st |-> "exited", port |-> NULL, said |-> TRUE]
                         ELSE NoAnvil]
         /\ ctl' = [ctl EXCEPT ![k] = Cleared(@)]
  /\ listen' = [p \in HostPorts |-> IF listen[p] = a THEN NULL ELSE listen[p]]
  /\ UNCHANGED <<chainVars, engineVars, ghostVars, nodeVars>>

\* the exit of a process that was killed or could not bind
Ended(a) == anvils[a].st = "ending" /\ AnvilExit(a)

\* another program of the host takes or gives back a port
ExtBind(port) ==
  /\ listen[port] = NULL
  /\ listen' = [listen EXCEPT ![port] = EXT]
  /\ UNCHANGED <<ctl, anvils, chainVars, engineVars, ghostVars, nodeVars>>

ExtRelease(port) ==
  /\ listen[port] = EXT
  /\ listen' = [listen EXCEPT ![port] = NULL]
  /\ UNCHANGED <<ctl, anvils, chainVars, engineVars, ghostVars, nodeVars>>

----------------------------------------------------------------------------
\* Properties

\* the items of a batch in list order: deployments, then calls
ExpectedOrder(o) ==
  [k \in 1..(Len(o.deployments) + Len(o.calls)) |->
     IF k <= Len(o.deployments) THEN [t |-> "d", i |-> k]
     ELSE [t |-> "c", i |-> k - Len(o.deployments)]]

PendingDeploys == {i \in 1..Len(mempool) : mempool[i].kind = "create2"}

\* C1: setContractState starts the items of the batch in list order, all
\* deployments before any call; a deployment transaction that is still
\* pending is the one the engine is waiting for, so nothing starts before
\* it is included; once a call has started every deployment has been awaited
\* and the address of every deployment of the batch holds code.
C1_BatchOrder ==
  op.kind = "batch" =>
    /\ Len(op.order) <= Len(ExpectedOrder(op))
    /\ \A k \in 1..Len(op.order) : op.order[k] = ExpectedOrder(op)[k]
    /\ \A i \in PendingDeploys : pc = "d_wait" /\ mempool[i].hash = op.hash
    /\ (\E k \in 1..Len(op.order) : op.order[k].t = "c") =>
         /\ op.di = Len(op.deployments)
         /\ PendingDeploys = {}
         /\ \A i \in 1..Len(op.deployments) :
              LET d == op.deployments[i]
                  predicted == predictContractAddress(
                                 d.salt, Artifact(d.name).bytecode, d.args)
              IN  predicted.ok /\ chain.code[predicted.addr] # <<>>

\* two deployments were sent and awaited, then the call was submitted
C1_Witness ==
  /\ pc = "done" /\ op.kind = "batch" /\ op.err = "none"
  /\ Len(op.deployments) = 2 /\ Len(op.calls) = 1
  /\ op.sent = 3
  /\ op.calls[1].target = op.ret

DeployDone == pc = "done" /\ op.kind = "deploy" /\ op.err = "none"

\* C2: a deployContract that repeats a request already deployed since the
\* last revert or reset returns the same address and sends no transaction.
C2_RepeatSkips ==
  DeployDone =>
    \A r \in repeatable :
      r.req = op.deployments[1] => op.ret = r.ret /\ op.sent = 0

\* C3: when deployContract returns, the address it returns holds code.
C3_ReturnedAddressHasCode ==
  DeployDone => chain.code[op.ret] # <<>>

\* C4: a request deployed after a snapshot (to an address that was empty at
\* the snapshot) and replayed after the revert to that snapshot is deployed
\* again: a transaction is sent, the address is the same and the code at
\* the address is the code the first deployment left there.
C4_ReplayAfterRevert ==
  DeployDone =>
    \A d \in replay :
      d.req = op.deployments[1] =>
        /\ op.sent = 1
        /\ op.ret = d.ret
        /\ chain.code[op.ret] = d.code

RevertDone ==
  /\ pc = "done" /\ op.kind = "revert" /\ op.err = "none"
  /\ \E g \in afterSnap : g.id = op.id

\* C5: when revert(id) returns, every address deployed to since snapshot id
\* that was empty at the snapshot is empty again, and every address that
\* held code at the snapshot holds the same code and storage.
C5_RevertFrame ==
  RevertDone =>
    LET g == CHOOSE h \in afterSnap : h.id = op.id
    IN  /\ \A d \in g.deployed :
             g.st.code[d.ret] = <<>> => op.st.code[d.ret] = <<>>
        /\ \A a \in Addr :
             g.st.code[a] # <<>> =>
               /\ op.st.code[a] = g.st.code[a]
               /\ op.st.storage[a] = g.st.storage[a]

\* a revert took back a deployment made after the snapshot
C5_Witness ==
  /\ RevertDone
  /\ \E g \in afterSnap :
       /\ g.id = op.id
       /\ \E d \in g.deployed :
            /\ g.st.code[d.ret] = <<>> /\ d.code # <<>>
            /\ chain.code[d.ret] = <<>>

CallDone == pc = "done" /\ op.kind = "call"

\* C6 as stated: an executeCall whose target is not registered fails with
\* "ABI not found" and sends nothing.
C6_AbiNotFoundAlways ==
  CallDone /\ op.calls[1].target \notin DOMAIN deployedContracts =>
    op.err = "ABI not found" /\ op.sent = 0

\* C6 amended: an executeCall whose target is not registered sends nothing
\* and fails, with "ABI not found" on an initialized engine and with the
\* not-initialized error before initialize(); a write is submitted only to a
\* registered target.
C6_UnregisteredFails ==
  /\ CallDone /\ op.calls[1].target \notin DOMAIN deployedContracts =>
       /\ op.sent = 0
       /\ op.err = IF walletClient THEN "ABI not found"
                   ELSE "SmartContractManager not initialized"
  /\ CallDone /\ op.sent > 0 => op.calls[1].target \in DOMAIN deployedContracts

\* an initialized engine with one contract registered refuses another target
C6_Witness ==
  /\ CallDone /\ walletClient /\ DOMAIN deployedContracts # {}
  /\ op.calls[1].target \notin DOMAIN deployedContracts
  /\ op.err = "ABI not found"

\* the lifecycle states of the controller, read off its fields and the
\* start() calls in progress
Starting == \E c \in Calls : spc[c] # "idle"

Ready == ~Starting /\ process # NULL /\ provider # NoProvider

Stopped == ~Starting /\ ~Ready

\* C7: a helper invoked when the controller is not Ready fails with
\* "Node not started" and sends no RPC request.
C7_HelperNeedsReady ==
  last.call \in HelperMethods /\ ~Ready => last.result = "Node not started"

\* C8: a start() call is accepted only when the controller is Stopped, that
\* is when no other start() call is in progress and no process is held.
C8_StartOnlyWhenStopped ==
  [][\A c \in Calls : spc[c] = "idle" /\ spc'[c] = "alloc" => Stopped]_vars

\* C9: when stop() returns the controller holds no process handle, no RPC
\* client and no port, a process it held has been sent a kill, no error is
\* raised, and a stop() that finds all three absent changes nothing.
C9_StopIdempotent ==
  [][last'.call = "stop" =>
       /\ last'.result = "ok"
       /\ process' = NULL /\ provider' = NoProvider /\ allocatedPort' = NULL
       /\ process # NULL /\ procs[process] = "running" =>
            procs'[process] = "killed"
       /\ process = NULL /\ provider = NoProvider /\ allocatedPort = NULL =>
            UNCHANGED <<procs, spc, retries, waitProc>>]_vars

\* stop() found a running process and killed it
C9_Witness ==
  /\ last.call = "stop" /\ last.had # NULL
  /\ procs[last.had] = "killed"
  /\ process = NULL /\ provider = NoProvider

\* C10: a start() call makes at most MAX_PORT_ALLOCATION_RETRIES attempts;
\* during the delay before a retry the failed attempt's process handle, port
\* and RPC client are gone and no process runs; the terminal error names the
\* attempt count and leaves the controller Stopped without a process.
C10_BoundedRetries ==
  /\ \A c \in Calls :
       /\ retries[c] <= MAX_PORT_ALLOCATION_RETRIES
       /\ spc[c] \in {"alloc", "waiting"} =>
            retries[c] < MAX_PORT_ALLOCATION_RETRIES
       /\ spc[c] = "delay" =>
            /\ process = NULL /\ provider = NoProvider /\ allocatedPort = NULL
            /\ \A p \in Pids : procs[p] # "running"
  /\ last.result = "Failed to start Anvil node" =>
       /\ last.attempts = MAX_PORT_ALLOCATION_RETRIES
       /\ retries[1] = MAX_PORT_ALLOCATION_RETRIES
       /\ Stopped
       /\ process = NULL
       /\ \A p \in Pids : procs[p] # "running"

\* the last attempt timed out, its process was killed and start() failed
C10_Witness ==
  /\ last.result = "Failed to start Anvil node"
  /\ \E p \in Pids : procs[p] = "killed"

\* a probe of port would bind: nothing listens on it and the bind is allowed
Bindable(port) ==
  port \in HostPorts /\ port \notin Denied /\ listen[port] = NULL

\* the step of controller k in which a probe of findAvailablePort settles
ProbeSettles(k) ==
  /\ ctl[k].pc = "probe"
  /\ ctl'[k].pc \notin {"probe", "hung"}

\* findAvailablePort of controller k returns (start stores the port and spawns)
PortReturned(k) == ProbeSettles(k) /\ ctl'[k].pc = "waiting"

\* findAvailablePort of controller k throws (the catch block of start runs)
PortFailed(k) == ProbeSettles(k) /\ ctl'[k].pc \in {"delay", "idle"}

\* C11: findAvailablePort returns the requested port exactly when one was
\* requested and its probe succeeds; otherwise it probes at most maxAttempts
\* random candidates of [minPort, maxPort] and returns the first whose probe
\* succeeds; when all of them fail it throws "No available ports found".  A
\* returned port is always one whose probe succeeded.
C11_PortAllocation ==
  [][\A k \in Controllers :
       LET c == ctl[k]
       IN  /\ PortReturned(k) =>
                /\ ctl'[k].allocatedPort = c.cand
                /\ Bindable(c.cand)
                /\ c.via = "requested" => c.port # NULL /\ c.cand = c.port
                /\ c.via = "random" =>
                     /\ c.cand >= portRange[1] /\ c.cand <= portRange[2]
                     /\ c.attempt < maxAttempts
           /\ ProbeSettles(k) /\ c.via = "requested" =>
                IF Bindable(c.cand)
                THEN PortReturned(k)
                ELSE /\ ctl'[k].pc = "draw" /\ ctl'[k].via = "random"
                     /\ ctl'[k].attempt = 0
           /\ ProbeSettles(k) /\ c.via = "random" /\ ~Bindable(c.cand) =>
                IF c.attempt + 1 < maxAttempts
                THEN ctl'[k].pc = "draw" /\ ctl'[k].attempt = c.attempt + 1
                ELSE PortFailed(k)
           /\ PortFailed(k) =>
                /\ c.via = "random" /\ c.attempt = maxAttempts - 1
                /\ ~Bindable(c.cand)
                /\ ctl'[k].error = "No available ports found"
                /\ ctl'[k].allocatedPort = NULL
           /\ ctl[k].pc = "idle" /\ ctl'[k].pc # "idle" =>
                ctl'[k].pc = "probe" <=> c.port # NULL]_vars

\* findAvailablePort has probed the requested port and all random candidates
\* but the last in vain, and its last candidate is free
C11_Witness ==
  /\ ctl[1].pc = "probe" /\ ctl[1].via = "random"
  /\ ctl[1].port # NULL /\ ctl[1].attempt = maxAttempts - 1
  /\ Bindable(ctl[1].cand)

\* start() of controller k has returned and the controller holds its process
FleetReady(k) ==
  /\ ctl[k].pc = "idle"
  /\ ctl[k].process # NULL
  /\ ctl[k].provider # NoProvider

\* C12: with several controllers running start() on one host, in any
\* interleaving of probes, spawns, binds and process events, the controllers
\* that are Ready at the same time hold pairwise-distinct ports (each the port
\* its own process listens on), and every process is spawned on the port whose
\* probe succeeded in the same attempt.
C12_FleetPorts ==
  /\ [](\A j, k \in Controllers :
          /\ FleetReady(k) =>
               /\ ctl[k].allocatedPort \in HostPorts
               /\ ctl[k].provider.port = ctl[k].allocatedPort
               /\ listen[ctl[k].allocatedPort] = ctl[k].process
          /\ FleetReady(j) /\ FleetReady(k) /\ j # k =>
               ctl[j].allocatedPort # ctl[k].allocatedPort)
  /\ [][\A a \in AnvilIds :
          anvils[a].st # "spawned" /\ anvils'[a].st = "spawned" =>
            LET k == Owner(a)
            IN  /\ PortReturned(k)
                /\ Bindable(ctl[k].cand)
                /\ anvils'[a].port = ctl[k].cand
                /\ ctl'[k].process = a
                /\ ctl'[k].allocatedPort = ctl[k].cand]_vars

\* the step in which a caller calls deployContract(d)
DeployCalled(d) ==
  Idle /\ pc' # "idle" /\ op'.kind = "deploy" /\ op'.deployments = <<d>>

\* C13 as stated: deployContract for a name without build output fails with
\* "Artifact not found" naming the expected path, before any request to the
\* node, with no transaction and the registry unchanged.
C13_ArtifactNotFoundAlways ==
  [][\A d \in DeployRequests :
       DeployCalled(d) /\ ~ArtifactExists(d.name) =>
         /\ pc' = "done"
         /\ op'.err = "Artifact not found: " \o projectRoot \o "/out/"
                         \o d.name \o ".sol/" \o d.name \o ".json"
         /\ op'.sent = 0 /\ mempool' = mempool
         /\ deployedContracts' = deployedContracts]_vars

\* C13 amended: such a deployContract fails in the calling step itself, so
\* before any request to the node, with no transaction and the registry
\* unchanged; the error is "Artifact not found" naming the expected path on an
\* initialized engine and the not-initialized error before initialize().
C13_MissingArtifactFails ==
  [][\A d \in DeployRequests :
       DeployCalled(d) /\ ~ArtifactExists(d.name) =>
         /\ pc' = "done"
         /\ op'.err = IF walletClient
                       THEN "Artifact not found: " \o projectRoot \o "/out/"
                              \o d.name \o ".sol/" \o d.name \o ".json"
                       ELSE "SmartContractManager not initialized"
         /\ op'.sent = 0 /\ mempool' = mempool
         /\ deployedContracts' = deployedContracts]_vars

\* an initialized engine with a contract registered has refused a deployment
\* whose build output is missing
C13_Witness ==
  /\ pc = "done" /\ op.kind = "deploy" /\ walletClient
  /\ DOMAIN deployedContracts # {}
  /\ ~ArtifactExists(op.deployments[1].name)
  /\ op.err = ArtifactNotFound(op.deployments[1].name)

\* the step in which a caller calls setContractState(config, node)
BatchCalled(config) ==
  /\ Idle /\ pc' # "idle" /\ op'.kind = "batch"
  /\ op'.deployments = config.deployments /\ op'.calls = config.calls

\* C14: setContractState with an invalid config fails with the validation
\* error before any request to the node, whether or not the engine was
\* initialized, and no item of the batch is issued.
C14_ValidationFirst ==
  /\ [][\A config \in Configs :
          BatchCalled(config) /\ validateConfig(config) # "none" =>
            /\ pc' = "done"
            /\ op'.err = validateConfig(config)
            /\ op'.sent = 0 /\ op'.order = <<>>
            /\ mempool' = mempool]_vars
  /\ [](op.kind = "batch" /\ validateConfig(op) # "none" =>
          /\ pc \in {"idle", "done"}
          /\ op.sent = 0 /\ op.order = <<>>)

\* the pending proxy deployment transactions
RawPending == {i \in 1..Len(mempool) : mempool[i].kind = "raw"}

\* the step in which ensureProxyDeployed submits PROXY_DEPLOYMENT_TX
ProxyTxSubmitted == pc = "init_send" /\ pc' = "init_wait"

WriteSubmitted == pc = "c_send" /\ pc' # "c_send"

\* C16: the contract write issued by executeCall carries the request's
\* target, functionName, args and calling account: the transaction is sent
\* from call.account.
C16_WriteFromCallAccount ==
  [][WriteSubmitted =>
       LET call == op.calls[op.ci + 1]
           tx == mempool'[Len(mempool')]
       IN  /\ Len(mempool') = Len(mempool) + 1
           /\ tx.kind = "write" /\ tx.to = call.target
           /\ tx.functionName = call.functionName /\ tx.data = call.args
           /\ tx.from = call.account]_vars

\* the step in which the process the controller holds exits or reports a
\* spawn error
Crashed(p) ==
  /\ process = p /\ procs[p] \in {"running", "failing"}
  /\ procs'[p] \in {"exited", "errored"}

\* C17: when the process exits or emits a spawn error while the controller is
\* Starting or Ready, the controller cleans up and becomes Stopped: no process
\* handle, no RPC client, no port, and the helpers fail with "Node not
\* started".
C17_CrashStops ==
  [][\A p \in Pids :
       Crashed(p) =>
         /\ process' = NULL /\ provider' = NoProvider
         /\ allocatedPort' = NULL
         /\ sendThrows'
         /\ Stopped']_vars

\* the initCode deployContract sends to the proxy after the salt:
\* encodeDeployData with the artifact's ABI
SentInitCode(d) ==
  encodeDeployData(Artifact(d.name), Artifact(d.name).bytecode, d.args)

\* C19: for every deployment request, with or without constructor args, the
\* address is predicted from the initCode that is sent to the proxy: the
\* prediction succeeds exactly when the payload can be built, and the
\* predicted address is the CREATE2 address of that initCode.
C19_PredictionUsesSentInitCode ==
  [][\A d \in DeployRequests :
       DeployCalled(d) /\ walletClient /\ ArtifactExists(d.name) =>
         /\ pc' = "d_check" <=> SentInitCode(d).ok
         /\ pc' = "d_check" =>
              op'.addr = getContractAddress(PROXY_ADDRESS, d.salt,
                                            SentInitCode(d).data)]_vars

\* the step in which a caller calls node.revert(id)
RevertCalled(id) ==
  Idle /\ pc' # "idle" /\ op'.kind = "revert" /\ op'.id = id

\* C20: revert(id) with a token the node does not recognise is reported to
\* the caller as an error, never as a successful revert, and creates no
\* snapshot.
C20_UnknownTokenIsError ==
  [][\A id \in 1..MaxSnaps :
       RevertCalled(id) /\ ~(\E s \in snapshots : s.id = id) =>
         /\ op'.err # "none"
         /\ snapshots' = snapshots /\ nextSnapId' = nextSnapId]_vars

\* C21: the delays between consecutive failed attempts of start() escalate:
\* the delay after the failed attempt k+1 is longer than the one after the
\* failed attempt k; no delay is taken after the final failed attempt.
C21_EscalatingDelay ==
  [][\A c \in Calls :
       (spc[c] # "delay" /\ spc'[c] = "delay") =>
         /\ retries'[c] < MAX_PORT_ALLOCATION_RETRIES
         /\ retries'[c] > 1 =>
              retryDelay(retries'[c]) > retryDelay(retries'[c] - 1)]_vars

\* C22: outside start() nothing is retried.  A helper called with an RPC
\* client hands exactly one request to it and fails with the request's error
\* when the request fails; without a client it sends nothing and throws.
\* deployContract and executeCall send at most one transaction per call, and
\* when the sending fails the call ends with an error.
C22_NoRetry ==
  [][LET NodeHelpers ==
            {"reset", "mine", "setAutomine", "setNextBlockTimestamp",
             "increaseTime", "setTime", "getAccounts", "setBalance", "setNonce",
             "setCode", "setStorageAt", "setNextBlockBaseFeePerGas",
             "setMinGasPrice", "setChainId", "impersonateAccount",
             "stopImpersonatingAccount"}
          \* a helper call returns or throws in this step
          HelperReturns == Idle /\ pc' = "done" /\ op'.kind \in NodeHelpers
          \* sendTransaction or writeContract settles in this step without a
          \* transaction accepted
          SendFailed ==
            /\ op.kind \in {"deploy", "call"}
            /\ pc \in {"d_send", "c_send"} /\ pc' # pc
            /\ mempool' = mempool
     IN  /\ HelperReturns =>
              IF sendThrows
              THEN op'.rpc = <<>> /\ op'.err = "Node not started"
              ELSE /\ Len(op'.rpc) = 1
                   /\ op'.err = "none" <=> op'.rpc[1].settled = "ok"
         /\ op'.kind \in {"deploy", "call"} =>
              /\ op'.sent <= 1
              /\ op'.sent = 1 => pc' \notin {"d_send", "c_send"}
         /\ SendFailed => pc' = "done" /\ op'.err # "none"]_vars

\* a helper's only request failed and the helper threw its error
C22_Witness ==
  /\ pc = "done" /\ op.kind = "setBalance"
  /\ op.err = RpcError /\ Len(op.rpc) = 1 /\ op.rpc[1].settled = "error"

\* C23: a failure of the request behind the proxy-presence check reaches the
\* caller of ensureProxyDeployed / initialize as an error; it is not taken
\* for 'proxy absent'.  So ensureProxyDeployed goes from its check to sending
\* the deployment transaction only when the proxy address has no code.
C23_CheckFailurePropagates ==
  [][(pc = "init_check" /\ pc' = "init_send") =>
       chain.code[PROXY_ADDRESS] = <<>>]_vars

\* C24: deployContract adds a registry entry only once the inclusion of its
\* deployment transaction has been awaited, or when it found code at the
\* predicted address; the entry is the predicted address.  A deployContract
\* that throws (engine uninitialized, artifact loading, prediction, sending
\* or the wait for inclusion failed) leaves the registry as it was.
C24_RegistryAfterInclusion ==
  [][LET DeployThrows ==
            /\ pc # "done" /\ pc' = "done"
            /\ op'.kind = "deploy" /\ op'.err # "none"
     IN  /\ deployedContracts' # deployedContracts =>
              /\ \/ pc = "d_check" /\ chain.code[op.addr] # <<>>
                 \/ pc = "d_wait" /\ op.sent > 0 /\ ~Pending(op.hash)
              /\ deployedContracts' =
                   Register(deployedContracts, op.addr,
                            op.deployments[op.di + 1].name)
         /\ DeployThrows => deployedContracts' = deployedContracts]_vars

\* the wait for inclusion failed after the transaction was sent: the call
\* threw and the predicted address is not in the registry
C24_Witness ==
  /\ pc = "done" /\ op.kind = "deploy" /\ op.err = RpcError
  /\ op.sent = 1 /\ op.addr \notin DOMAIN deployedContracts

\* the value of a string of hexadecimal digits
RECURSIVE HexValue(_)
HexValue(ds) ==
  IF ds = <<>> THEN 0
  ELSE HexValue(SubSeq(ds, 1, Len(ds) - 1)) * Len(HexDigits) +
       (CHOOSE v \in 0..(Len(HexDigits) - 1) : HexDigits[v + 1] = ds[Len(ds)])

\* C25: every big-integer quantity supplied to setBalance,
\* setNextBlockBaseFeePerGas, setMinGasPrice or reset reaches the RPC request
\* as the 0x-prefixed hexadecimal representation of exactly that value, the
\* value 0 included.
C25_QuantityAsHex ==
  LET \* the quantity the caller supplied, if any
      supplied ==
        CASE op.kind = "setBalance" -> <<op.args[2]>>
          [] op.kind = "reset" -> op.args[1]
          [] OTHER -> <<op.args[1]>>
      request == op.rpc[1].request
      \* the string that stands for the quantity in the request, if any
      carried ==
        CASE request.method = "anvil_setBalance" -> <<request.params[2]>>
          [] request.method = "anvil_reset" ->
               IF request.params = <<>> THEN <<>>
               ELSE <<request.params[1].forking.blockNumber>>
          [] OTHER -> <<request.params[1]>>
      \* h is "0x" followed by hexadecimal digits that denote n
      IsHexOf(h, n) ==
        /\ Len(h) > 2 /\ h[1] = "0" /\ h[2] = "x"
        /\ \A i \in 3..Len(h) :
             \E v \in 1..Len(HexDigits) : HexDigits[v] = h[i]
        /\ HexValue(SubSeq(h, 3, Len(h))) = n
  IN  (/\ pc = "done"
       /\ op.kind \in {"setBalance", "setNextBlockBaseFeePerGas",
                       "setMinGasPrice", "reset"}
       /\ op.rpc # <<>>) =>
        /\ Len(carried) = Len(supplied)
        /\ \A i \in 1..Len(supplied) : IsHexOf(carried[i], supplied[i])

\* C26: in every reachable state, whatever the interleaving of start, stop,
\* readiness output and exit / error events, the RPC client is present only
\* if the process handle and the allocated port are present, and the port of
\* the client's URL is the allocated port.
C26_ClientNeedsProcessAndPort ==
  provider # NoProvider =>
    /\ process # NULL
    /\ allocatedPort # NULL
    /\ provider.port = allocatedPort

\* C27: the exit / error event of a process spawned by an earlier start
\* attempt, or by a start() that preceded a stop(), never kills or clears the
\* process, the port or the RPC client of a later attempt.
C27_StaleEventHarmless ==
  [][LET \* the exit or error event of process p is delivered in this step
          \* while the controller holds another process, of a later attempt
          StaleEvent(p) ==
            /\ process # NULL /\ p # process
            /\ procs[p] \in {"running", "killed", "failing"}
            /\ procs'[p] \in {"exited", "errored", "free"}
     IN  \A p \in Pids :
           StaleEvent(p) =>
             /\ process' = process
             /\ procs'[process] = procs[process]
             /\ allocatedPort' = allocatedPort
             /\ provider' = provider]_vars

\* C28: a stop() issued while start() is in progress is final: that start()
\* neither spawns another process nor brings the controller to Ready, and the
\* controller stays Stopped until start() is called again.  In particular
\* the step that follows the stop() leaves the controller without process and
\* client, and the interrupted start() takes no further step of its attempt
\* loop: it stays where it is or ends without success.
C28_StopIsFinal ==
  [][LET \* stop() has just returned while the start() call c is in progress
          StoppedDuringStart(c) ==
            last.call = "stop" /\ spc[c] \in {"alloc", "waiting", "delay"}
     IN  \A c \in Calls :
           StoppedDuringStart(c) =>
             /\ process' = NULL /\ provider' = NoProvider
             /\ spc'[c] \in {spc[c], "idle"}
             /\ spc'[c] = "idle" => last'.result # "ok"]_vars

\* C29: when the k-th item of a setContractState batch fails, the call
\* fails with that item's error, the k-th item is the last one issued, and
\* what the earlier items did remains: their addresses are registered, no
\* registry entry and no submitted transaction is taken back, the chain is
\* not rewound.
C29_BatchStopsAtFailure ==
  [][LET \* a setContractState call throws in this step, at one of its items
          BatchItemThrows ==
            /\ pc # "done" /\ pc' = "done"
            /\ op'.kind = "batch" /\ op'.err # "none" /\ op'.order # <<>>
          \* the errors with which the item issued last by o can fail
          ItemErrors(o) ==
            LET item == o.order[Len(o.order)]
            IN  IF item.t = "d"
                THEN IF ArtifactExists(o.deployments[item.i].name)
                     THEN {"AbiConstructorNotFound", RpcError}
                     ELSE {ArtifactNotFound(o.deployments[item.i].name)}
                ELSE {"ABI not found", RpcError}
     IN  BatchItemThrows =>
           /\ Len(op'.order) = op'.di + op'.ci + 1
           /\ op'.order = SubSeq(ExpectedOrder(op'), 1, Len(op'.order))
           /\ op'.err \in ItemErrors(op')
           /\ \A i \in 1..op'.di :
                predictContractAddress(
                  op'.deployments[i].salt,
                  Artifact(op'.deployments[i].name).bytecode,
                  op'.deployments[i].args).addr
                  \in DOMAIN deployedContracts'
           /\ \A a \in DOMAIN deployedContracts :
                a \in DOMAIN deployedContracts' /\
                deployedContracts'[a] = deployedContracts[a]
           /\ mempool = SubSeq(mempool', 1, Len(mempool))
           /\ chain' = chain]_vars

\* the call of a batch failed after its deployment had been registered
C29_Witness ==
  /\ pc = "done" /\ op.kind = "batch" /\ op.err = RpcError
  /\ op.di = 1 /\ op.ci = 0 /\ Len(op.order) = 2
  /\ DOMAIN deployedContracts # {}

\* C30: every address in the registry has non-empty code on the node, in
\* every state reachable through deployContract, snapshot, revert and reset;
\* so executeCall, which writes to registered addresses only, never writes
\* to an address without code.
C30_RegisteredHasCode ==
  \A a \in DOMAIN deployedContracts : chain.code[a] # <<>>

\* C18: every start() call eventually terminates, Ready or with an error: no
\* probe outcome and no process event leaves it waiting forever.
C18_StartTerminates ==
  \A k \in Controllers : ctl[k].pc # "idle" ~> ctl[k].pc = "idle"

\* two controllers that requested the same port are Ready at the same time
C12_Witness ==
  /\ FleetReady(1) /\ FleetReady(2)
  /\ ctl[1].port # NULL /\ ctl[1].port = ctl[2].port

----------------------------------------------------------------------------
\* Specifications

InitChain ==
  /\ genesis \in {EmptyChain, ProxyChain}
  /\ chain = genesis
  /\ snapshots = {}
  /\ nextSnapId = 1
  /\ mempool = <<>>

InitEngine ==
  /\ walletClient = FALSE
  /\ deployedContracts = <<>>
  /\ pc = "idle"
  /\ op = NoOp
  /\ repeatable = {}
  /\ afterSnap = {}
  /\ replay = {}
  /\ proxyTxSent = FALSE

\* a constructed LocalNodeManager
InitNode ==
  /\ process = NULL
  /\ provider = NoProvider
  /\ allocatedPort = NULL
  /\ spc = [c \in Calls |-> "idle"]
  /\ retries = [c \in Calls |-> 0]
  /\ waitProc = [c \in Calls |-> 0]
  /\ procs = [p \in Pids |-> "free"]
  /\ last = NoCallRec

\* a LocalNodeManager whose start() has returned
InitNodeReady ==
  /\ process = 1
  /\ provider = [port |-> 1]
  /\ allocatedPort = 1
  /\ spc = [c \in Calls |-> "idle"]
  /\ retries = [c \in Calls |-> 0]
  /\ waitProc = [c \in Calls |-> 0]
  /\ procs = [p \in Pids |-> IF p = 1 THEN "running" ELSE "free"]
  /\ last = NoCallRec

\* no controller of the host model has been started
InitHost ==
  /\ ctl = [k \in Controllers |-> NewController(NULL)]
  /\ anvils = [a \in AnvilIds |-> NoAnvil]
  /\ listen = [p \in HostPorts |-> NULL]

Init == InitChain /\ InitEngine /\ InitNodeReady /\ InitHost

Next ==
  \/ Initialize
  \/ GetChainIdReturn
  \/ IsProxyDeployedReturn
  \/ ProxySubmit
  \/ ProxyReceipt
  \/ \E d \in DeployRequests : DeployContract(d)
  \/ GetBytecodeReturn
  \/ DeploySubmit
  \/ DeployReceipt
  \/ \E c \in CallRequests : ExecuteCall(c)
  \/ WriteContractReturn
  \/ Snapshot
  \/ \E id \in 1..MaxSnaps : Revert(id)
  \/ Reset
  \/ Mine
  \/ Return

Spec == Init /\ [][Next]_vars

\* batches only: setContractState calls, one after the other
NextBatch ==
  \/ \E cfg \in Configs : SetContractState(cfg)
  \/ GetChainIdReturn
  \/ IsProxyDeployedReturn
  \/ ProxySubmit
  \/ ProxyReceipt
  \/ GetBytecodeReturn
  \/ DeploySubmit
  \/ DeployReceipt
  \/ WriteContractReturn
  \/ Mine
  \/ Return

SpecBatch == Init /\ [][NextBatch]_vars

\* the batches that pass validateConfig; their items' requests may fail
NextBatchRpc ==
  \/ \E cfg \in {c \in Configs : validateConfig(c) = "none"} :
       SetContractState(cfg)
  \/ GetChainIdReturn
  \/ IsProxyDeployedReturn
  \/ ProxySubmit
  \/ ProxyReceipt
  \/ GetBytecodeReturn
  \/ DeploySubmit
  \/ DeployReceipt
  \/ WriteContractReturn
  \/ Mine
  \/ Return
  \/ GetBytecodeThrows
  \/ DeploySubmitThrows
  \/ DeployReceiptThrows
  \/ WriteContractThrows

SpecBatchRpc == Init /\ [][NextBatchRpc]_vars

\* the engine and the helpers used with a node that was started, or with one
\* that never was
InitRpc ==
  InitChain /\ InitEngine /\ (InitNode \/ InitNodeReady) /\ InitHost

\* single operations and helper calls against a node whose requests may
\* fail; they succeed only while the node process is there
NextRpc ==
  \/ Initialize
  \/ \E d \in DeployRequests : DeployContract(d)
  \/ \E c \in CallRequests : ExecuteCall(c)
  \/ process # NULL /\ GetChainIdReturn
  \/ process # NULL /\ IsProxyDeployedReturn
  \/ process # NULL /\ ProxySubmit
  \/ process # NULL /\ ProxyReceipt
  \/ process # NULL /\ GetBytecodeReturn
  \/ process # NULL /\ DeploySubmit
  \/ process # NULL /\ DeployReceipt
  \/ process # NULL /\ WriteContractReturn
  \/ process # NULL /\ Mine
  \/ GetChainIdThrows
  \/ IsProxyDeployedCatch
  \/ ProxySubmitThrows
  \/ ProxyReceiptThrows
  \/ GetBytecodeThrows
  \/ DeploySubmitThrows
  \/ DeployReceiptThrows
  \/ WriteContractThrows
  \/ \E outcome \in {"ok", "error"} :
       \/ \E v \in {<<>>} \cup {<<n>> : n \in 0..MaxWei} :
            NodeCall("reset", <<v>>, reset(v), outcome)
       \/ NodeCall("mine", <<1>>, mine(1), outcome)
       \/ NodeCall("setAutomine", <<TRUE>>, setAutomine(TRUE), outcome)
       \/ NodeCall("setNextBlockTimestamp", <<9>>,
                   setNextBlockTimestamp(9), outcome)
       \/ NodeCall("increaseTime", <<9>>, increaseTime(9), outcome)
       \/ NodeCall("setTime", <<9>>, setTime(9), outcome)
       \/ NodeCall("getAccounts", <<>>, getAccounts, outcome)
       \/ \E balance \in 0..MaxWei :
            NodeCall("setBalance", <<WalletAccount, balance>>,
                     setBalance(WalletAccount, balance), outcome)
       \/ NodeCall("setNonce", <<WalletAccount, 1>>,
                   setNonce(WalletAccount, 1), outcome)
       \/ NodeCall("setCode", <<WalletAccount, "0x60">>,
                   setCode(WalletAccount, "0x60"), outcome)
       \/ NodeCall("setStorageAt", <<WalletAccount, "0x0", "0x1">>,
                   setStorageAt(WalletAccount, "0x0", "0x1"), outcome)
       \/ \E fee \in 0..MaxWei :
            NodeCall("setNextBlockBaseFeePerGas", <<fee>>,
                     setNextBlockBaseFeePerGas(fee), outcome)
       \/ \E price \in 0..MaxWei :
            NodeCall("setMinGasPrice", <<price>>, setMinGasPrice(price),
                     outcome)
       \/ NodeCall("setChainId", <<1>>, setChainId(1), outcome)
       \/ NodeCall("impersonateAccount", <<WalletAccount>>,
                   impersonateAccount(WalletAccount), outcome)
       \/ NodeCall("stopImpersonatingAccount", <<WalletAccount>>,
                   stopImpersonatingAccount(WalletAccount), outcome)
  \/ Return

SpecRpc == InitRpc /\ [][NextRpc]_vars

InitN ==
  InitChain /\ genesis = EmptyChain /\ InitEngine /\ InitNode /\ InitHost

\* one start() call at a time; stop(), the helpers and the process events
\* arrive at any moment
NextNode ==
  \/ Start(1)
  \/ \E port \in Ports, status \in {"running", "failing"} :
       Spawn(1, port, status)
  \/ AllocFail(1)
  \/ Timeout(1)
  \/ DelayDone(1)
  \/ ReadyData(1)
  \/ \E p \in Pids : ExitEvent(p)
  \/ \E p \in Pids : ErrorEvent(p)
  \/ Stop
  \/ \E m \in HelperMethods : Helper(m)

SpecNode == InitN /\ [][NextNode]_vars

\* start() calls that overlap, with a binary that spawns
NextOverlap ==
  \/ \E c \in Calls : Start(c)
  \/ \E c \in Calls, port \in Ports : Spawn(c, port, "running")
  \/ \E c \in Calls : AllocFail(c)
  \/ \E c \in Calls : Timeout(c)
  \/ \E c \in Calls : DelayDone(c)
  \/ \E c \in Calls : ReadyData(c)
  \/ \E p \in Pids : ExitEvent(p)

SpecOverlap == InitN /\ [][NextOverlap]_vars

\* one controller on a host whose ports other programs take and give back;
\* a start() call is followed for MaxRetries failed attempts
InitAlloc ==
  /\ InitChain /\ genesis = EmptyChain /\ InitEngine /\ InitNode
  /\ \E port \in ConfigPorts :
       ctl = [k \in Controllers |->
                IF k = 1 THEN NewController(port) ELSE NewController(NULL)]
  /\ anvils = [a \in AnvilIds |-> NoAnvil]
  /\ listen \in [HostPorts -> {NULL, EXT}]
  /\ \A port \in Denied : listen[port] = NULL

NextAlloc ==
  \/ FleetStart(1)
  \/ \E port \in RandomPorts : Draw(1, port)
  \/ Probe(1, "spawned")
  \/ FleetTimeout(1)
  \/ ctl[1].retries <= MaxRetries /\ FleetDelayDone(1)
  \/ \E a \in AnvilIds : Bind(a)
  \/ \E a \in AnvilIds : StdoutData(a)
  \/ \E a \in AnvilIds : AnvilExit(a)
  \/ \E port \in HostPorts \ Denied : ExtBind(port)
  \/ \E port \in HostPorts \ Denied : ExtRelease(port)

SpecAlloc == InitAlloc /\ [][NextAlloc]_vars

\* one controller on a host whose ports do not change hands, with every
\* attempt of start() followed.  The event loop runs every continuation and
\* timer that is due, a spawned process binds or fails, and a process that was
\* killed or failed exits; nothing obliges the caller to call start().  The
\* binary may also fail to spawn.
NextAllocFair ==
  \/ FleetStart(1)
  \/ \E port \in RandomPorts : Draw(1, port)
  \/ \E status \in {"spawned", "ending"} : Probe(1, status)
  \/ FleetTimeout(1)
  \/ FleetDelayDone(1)
  \/ \E a \in AnvilIds : Bind(a)
  \/ \E a \in AnvilIds : StdoutData(a)
  \/ \E a \in AnvilIds : AnvilExit(a)

FairAlloc ==
  /\ WF_vars(\E port \in RandomPorts : Draw(1, port))
  /\ WF_vars(\E status \in {"spawned", "ending"} : Probe(1, status))
  /\ WF_vars(FleetTimeout(1))
  /\ WF_vars(FleetDelayDone(1))
  /\ \A a \in AnvilIds :
       WF_vars(Bind(a)) /\ WF_vars(StdoutData(a)) /\ WF_vars(Ended(a))

SpecAllocFair == InitAlloc /\ [][NextAllocFair]_vars /\ FairAlloc

\* the controllers of one host have each called start() once, the first with
\* a requested port, the others with the same one or none, and run it
\* concurrently; a search is followed for
\* MaxProbes failed probes and a start() for MaxRetries failed attempts.  The
\* binaries do not crash: a process ends when it is killed or cannot bind.
InitFleet ==
  /\ InitChain /\ genesis = EmptyChain /\ InitEngine /\ InitNode
  /\ \E port \in {NULL, 2} :
       ctl = [k \in Controllers |->
                EnterFind(NewController(IF k = 1 THEN 2 ELSE port))]
  /\ anvils = [a \in AnvilIds |-> NoAnvil]
  /\ listen = [p \in HostPorts |-> NULL]

NextFleet ==
  \/ \E k \in Controllers, port \in RandomPorts :
       ctl[k].attempt <= MaxProbes /\ Draw(k, port)
  \/ \E k \in Controllers : Probe(k, "spawned")
  \/ \E k \in Controllers : FleetTimeout(k)
  \/ \E k \in Controllers :
       ctl[k].retries <= MaxRetries /\ FleetDelayDone(k)
  \/ \E a \in AnvilIds : Bind(a)
  \/ \E a \in AnvilIds : StdoutData(a)
  \/ \E a \in AnvilIds : Ended(a)

SpecFleet == InitFleet /\ [][NextFleet]_vars

====
